---- MODULE Spec2Model ----
(***************************************************************************)
(* ListToolBar (packages/table/src/components/ListToolBar/index.tsx).      *)
(*                                                                         *)
(* The component is a function of its props and of the breakpoint, run     *)
(* once per render pass; nine intermediate values are kept by useMemo      *)
(* between passes.  The state is the props of the latest pass, the memo    *)
(* cells, the tree the latest pass returned and the callbacks the latest   *)
(* step invoked.  JavaScript values are records tagged by t; an optional   *)
(* prop is either Absent (undefined) or supplied with a truthy value.      *)
(* A supplied value is immutable: the same value in two passes is the      *)
(* same reference with the same content (React's props contract); only     *)
(* the arrays created by the default parameters are new in every pass.     *)
(***************************************************************************)
EXTENDS Integers, Sequences, FiniteSets, TLC

VARIABLES props, colSize, memo, out, event, calls

vars == <<props, colSize, memo, out, event, calls>>

(* ---------------------------- bounds ----------------------------------- *)
MaxActions == 1
MaxSettings == 1
MaxTabs == 1

(* ------------------------- JavaScript values --------------------------- *)
Absent == [t |-> "absent"]
TrueV == [t |-> "bool", v |-> TRUE]
FalseV == [t |-> "bool", v |-> FALSE]
Num(n) == [t |-> "num", n |-> n]
Str(s) == [t |-> "str", s |-> s]
Element(id) == [t |-> "element", id |-> id, key |-> Absent]
Text(id) == [t |-> "text", id |-> id]
Fn(id) == [t |-> "fn", id |-> id]
Array(items, fresh) == [t |-> "array", items |-> items, fresh |-> fresh]

Truthy(v) ==
    CASE v.t = "absent" -> FALSE
      [] v.t = "bool" -> v.v
      [] v.t = "num" -> v.n # 0
      [] v.t = "str" -> v.s # ""
      [] OTHER -> TRUE

Or(a, b) == IF Truthy(a) THEN a ELSE b
And(a, b) == IF Truthy(a) THEN b ELSE a
Not(a) == IF Truthy(a) THEN FalseV ELSE TrueV
isValidElement(v) == v.t \in {"element", "el"}
isArray(v) == v.t = "array"

prefixCls == "ant-pro-table-list-toolbar"
hashId == "hashId"
placeholder == "tableForm.inputPlaceholder"

El(type, cls, attrs, slots, children) ==
    [t |-> "el", type |-> type, cls |-> cls, attrs |-> attrs,
     slots |-> slots, children |-> children]

(* ---------------------------- getSettingItem --------------------------- *)
SettingField(setting, f) == IF setting.t = "setting" THEN setting[f] ELSE Absent

(* getSettingItem wrapping every icon, tooltip or not.                     *)
getSettingItemAlwaysWrapped(setting) ==
    IF isValidElement(setting) THEN setting
    ELSE IF Truthy(setting) THEN
        LET icon == SettingField(setting, "icon")
            tooltip == SettingField(setting, "tooltip")
            onClick == SettingField(setting, "onClick")
            key == SettingField(setting, "key")
        IN  IF Truthy(icon)
            THEN El("Tooltip", "", [title |-> tooltip], <<tooltip>>,
                    <<El("span", "",
                         [key |-> key,
                          onClick |-> [t |-> "handler", onClick |-> onClick, key |-> key]],
                         <<>>, <<icon>>)>>)
            ELSE icon
    ELSE Absent

getSettingItem(setting) ==
    IF isValidElement(setting) THEN setting
    ELSE IF Truthy(setting) THEN
        LET icon == SettingField(setting, "icon")
            tooltip == SettingField(setting, "tooltip")
            onClick == SettingField(setting, "onClick")
            key == SettingField(setting, "key")
        IN  IF Truthy(icon) /\ Truthy(tooltip)
            THEN El("Tooltip", "", [title |-> tooltip], <<tooltip>>,
                    <<El("span", "",
                         [key |-> key,
                          onClick |-> [t |-> "handler", onClick |-> onClick, key |-> key]],
                         <<>>, <<icon>>)>>)
            ELSE icon
    ELSE Absent

(* --------------------------- ListToolBarTabBar ------------------------- *)
TabKey(item, index) == IF Truthy(item.key) THEN item.key ELSE Str(ToString(index))

TabItems(items) ==
    [i \in 1..Len(items) |->
        [label |-> items[i].tab, tab |-> items[i].tab, key |-> TabKey(items[i], i - 1)]]

TabPanes(items) ==
    [i \in 1..Len(items) |->
        El("Tabs.TabPane", "",
           [key |-> Or(items[i].key, Num(i - 1)), tab |-> items[i].tab],
           <<items[i].tab>>, <<>>)]

ListToolBarTabBar(tabsProp, multipleLine, filtersNode) ==
    LET tabs == IF tabsProp = Absent
                THEN [t |-> "tabs", activeKey |-> Absent, onChange |-> Absent, items |-> Absent]
                ELSE tabsProp
    IN  IF ~Truthy(multipleLine) THEN Absent
        ELSE El("div", "-extra-line", <<>>, <<>>,
                <<IF Truthy(tabs.items) /\ Len(tabs.items.items) # 0
                  THEN El("Tabs", "",
                          [activeKey |-> tabs.activeKey,
                           items |-> TabItems(tabs.items.items),
                           onChange |-> tabs.onChange],
                          <<filtersNode>>,
                          TabPanes(tabs.items.items))
                  ELSE filtersNode>>)

(* ------------------------------ useMemo -------------------------------- *)
EmptyCell == [set |-> FALSE, deps |-> <<>>, val |-> Absent]
Cell(deps, val) == [set |-> TRUE, deps |-> deps, val |-> val]

(* Object.is on one dependency: an array made by a default parameter is a  *)
(* new object in every pass and is never the one of the pass before.       *)
ObjectIs(a, b) == a = b /\ ~(a.t = "array" /\ a.fresh)

areHookInputsEqual(prevDeps, nextDeps) ==
    /\ Len(prevDeps) = Len(nextDeps)
    /\ \A i \in 1..Len(nextDeps) : ObjectIs(prevDeps[i], nextDeps[i])

useMemo(cell, deps, create) ==
    IF cell.set /\ areHookInputsEqual(cell.deps, deps) THEN cell.val ELSE create

(* ----------------------------- the hooks ------------------------------- *)
searchNodeFn(search, onSearch, ph) ==
    IF ~Truthy(search) THEN Absent
    ELSE IF isValidElement(search) THEN search
    ELSE El("Input.Search", "",
            [width |-> 200, placeholder |-> ph, rest |-> search,
             onSearch |-> [t |-> "handler", top |-> onSearch, search |-> search]],
            <<>>, <<>>)

searchNodeDeps(search, onSearch, ph) == <<Str(ph), onSearch, search>>

filtersNodeFn(filter) ==
    IF Truthy(filter) THEN El("div", "-filter", <<>>, <<>>, <<filter>>) ELSE Absent

filtersNodeDeps(filter) == <<filter, Str(hashId), Str(prefixCls)>>

(* hasTitle forgetting the tooltip.                                        *)
hasTitleFnNoTooltip(menu, title, subTitle, tooltip) == Or(menu, Or(title, subTitle))

hasTitleFn(menu, title, subTitle, tooltip) == Or(menu, Or(title, Or(subTitle, tooltip)))

hasTitleDeps(menu, title, subTitle, tooltip) == <<menu, subTitle, title, tooltip>>

(* The action list losing what is not an element.                         *)
ActionChildNoRaw(action, index) ==
    IF ~isValidElement(action)
    THEN El("Fragment", "", [key |-> Num(index)], <<>>, <<>>)
    ELSE [action EXCEPT !.key = Num(index)]

ActionChild(action, index) ==
    IF ~isValidElement(action)
    THEN El("Fragment", "", [key |-> Num(index)], <<>>, <<action>>)
    ELSE [action EXCEPT !.key = Num(index)]

actionDomFn(actions) ==
    IF ~isArray(actions) THEN actions
    ELSE IF Len(actions.items) < 1 THEN Absent
    ELSE El("Space", "", [align |-> "center"], <<>>,
            [i \in 1..Len(actions.items) |-> ActionChild(actions.items[i], i - 1)])

actionDomDeps(actions) == <<actions>>

settingsLength(settings) == IF isArray(settings) THEN Num(Len(settings.items)) ELSE Absent

hasRightFn(hasTitle, searchNode, multipleLine, filtersNode, actionDom, settings) ==
    Or(And(hasTitle, searchNode),
       Or(And(Not(multipleLine), filtersNode),
          Or(actionDom, settingsLength(settings))))

hasRightDeps(hasTitle, searchNode, multipleLine, filtersNode, actionDom, settings) ==
    <<actionDom, filtersNode, hasTitle, multipleLine, searchNode, settingsLength(settings)>>

(* hasLeft forgetting the search box that falls back to the left.         *)
hasLeftFnNoSearch(tooltip, title, subTitle, menu, hasTitle, searchNode) ==
    Or(tooltip, Or(title, Or(subTitle, menu)))

hasLeftFn(tooltip, title, subTitle, menu, hasTitle, searchNode) ==
    Or(tooltip, Or(title, Or(subTitle, Or(menu, And(Not(hasTitle), searchNode)))))

hasLeftDeps(tooltip, title, subTitle, menu, hasTitle, searchNode) ==
    <<hasTitle, menu, searchNode, subTitle, title, tooltip>>

TitleBlock(tooltip, title, subTitle) ==
    El("div", "-title", <<>>, <<>>,
       <<El("LabelIconTip", "", [tooltip |-> tooltip, label |-> title, subTitle |-> subTitle],
            <<title, subTitle, tooltip>>, <<>>)>>)

SearchBox(searchNode) == El("div", "-search", <<>>, <<>>, <<searchNode>>)

(* The left stack keeping the title block next to the menu.               *)
leftTitleDomFnTitleWithMenu(hasLeft, hasRight, menu, hasTitle, searchNode, tooltip, title, subTitle) ==
    IF ~Truthy(hasLeft) /\ Truthy(hasRight)
    THEN El("div", "-left", <<>>, <<>>, <<>>)
    ELSE IF ~Truthy(menu) /\ (Truthy(hasTitle) \/ ~Truthy(searchNode))
    THEN El("div", "-left", <<>>, <<>>, <<TitleBlock(tooltip, title, subTitle)>>)
    ELSE El("Space", "-left", <<>>, <<>>,
            <<And(hasTitle, TitleBlock(tooltip, title, subTitle)),
              And(menu, El("HeaderMenu", "", [menu |-> menu], <<menu>>, <<>>)),
              IF Truthy(And(Not(hasTitle), searchNode)) THEN SearchBox(searchNode) ELSE Absent>>)

leftTitleDomFn(hasLeft, hasRight, menu, hasTitle, searchNode, tooltip, title, subTitle) ==
    IF ~Truthy(hasLeft) /\ Truthy(hasRight)
    THEN El("div", "-left", <<>>, <<>>, <<>>)
    ELSE IF ~Truthy(menu) /\ (Truthy(hasTitle) \/ ~Truthy(searchNode))
    THEN El("div", "-left", <<>>, <<>>, <<TitleBlock(tooltip, title, subTitle)>>)
    ELSE El("Space", "-left", <<>>, <<>>,
            <<And(hasTitle, And(Not(menu), TitleBlock(tooltip, title, subTitle))),
              And(menu, El("HeaderMenu", "", [menu |-> menu], <<menu>>, <<>>)),
              IF Truthy(And(Not(hasTitle), searchNode)) THEN SearchBox(searchNode) ELSE Absent>>)

leftTitleDomDeps(hasLeft, hasRight, menu, hasTitle, searchNode, tooltip, title, subTitle) ==
    <<hasLeft, hasRight, hasTitle, Str(hashId), menu, Str(prefixCls),
      searchNode, subTitle, title, tooltip>>

SettingSlots(settings) ==
    [i \in 1..Len(settings.items) |->
        El("div", "-setting-item", [key |-> Num(i - 1)], <<>>,
           <<getSettingItem(settings.items[i])>>)]

(* The right region showing the filter in multi-line mode too.            *)
rightTitleDomFnFilterAlways(hasRight, isMobile, hasTitle, searchNode, multipleLine, filtersNode, actionDom, settings) ==
    IF ~Truthy(hasRight) THEN Absent
    ELSE El("Space", "-right",
            [direction |-> IF Truthy(isMobile) THEN "vertical" ELSE "horizontal",
             size |-> 8,
             align |-> IF Truthy(isMobile) THEN "end" ELSE "center"],
            <<>>,
            <<filtersNode,
              IF Truthy(And(hasTitle, searchNode)) THEN SearchBox(searchNode) ELSE Absent,
              actionDom,
              IF Truthy(settingsLength(settings))
              THEN El("Space", "-setting-items", [size |-> 12, align |-> "center"], <<>>,
                      SettingSlots(settings))
              ELSE Absent>>)

rightTitleDomFn(hasRight, isMobile, hasTitle, searchNode, multipleLine, filtersNode, actionDom, settings) ==
    IF ~Truthy(hasRight) THEN Absent
    ELSE El("Space", "-right",
            [direction |-> IF Truthy(isMobile) THEN "vertical" ELSE "horizontal",
             size |-> 8,
             align |-> IF Truthy(isMobile) THEN "end" ELSE "center"],
            <<>>,
            <<IF ~Truthy(multipleLine) THEN filtersNode ELSE Absent,
              IF Truthy(And(hasTitle, searchNode)) THEN SearchBox(searchNode) ELSE Absent,
              actionDom,
              IF Truthy(settingsLength(settings))
              THEN El("Space", "-setting-items", [size |-> 12, align |-> "center"], <<>>,
                      SettingSlots(settings))
              ELSE Absent>>)

(* The right region depending on the length of settings only.             *)
rightTitleDomDepsLength(hasRight, isMobile, hasTitle, searchNode, multipleLine, filtersNode, actionDom, settings) ==
    <<hasRight, Str(prefixCls), Str(hashId), isMobile, hasTitle, searchNode,
      multipleLine, filtersNode, actionDom, settingsLength(settings)>>

rightTitleDomDeps(hasRight, isMobile, hasTitle, searchNode, multipleLine, filtersNode, actionDom, settings) ==
    <<hasRight, Str(prefixCls), Str(hashId), isMobile, hasTitle, searchNode,
      multipleLine, filtersNode, actionDom, settings>>

(* The title container looking at the right region only.                  *)
titleNodeFnRightOnly(hasRight, hasLeft, isMobile, leftTitleDom, rightTitleDom) ==
    IF ~Truthy(hasRight) THEN Absent
    ELSE El("div", "-container", [mobile |-> Truthy(isMobile)], <<>>,
            <<leftTitleDom, rightTitleDom>>)

titleNodeFn(hasRight, hasLeft, isMobile, leftTitleDom, rightTitleDom) ==
    IF ~Truthy(hasRight) /\ ~Truthy(hasLeft) THEN Absent
    ELSE El("div", "-container", [mobile |-> Truthy(isMobile)], <<>>,
            <<leftTitleDom, rightTitleDom>>)

titleNodeDeps(hasRight, hasLeft, isMobile, leftTitleDom, rightTitleDom) ==
    <<hasLeft, hasRight, Str(hashId), isMobile, leftTitleDom, Str(prefixCls), rightTitleDom>>

(* ------------------------------ ListToolBar ---------------------------- *)
Unmounted ==
    [searchNode |-> EmptyCell, filtersNode |-> EmptyCell, hasTitle |-> EmptyCell,
     actionDom |-> EmptyCell, hasRight |-> EmptyCell, hasLeft |-> EmptyCell,
     leftTitleDom |-> EmptyCell, rightTitleDom |-> EmptyCell, titleNode |-> EmptyCell]

isMobileOf(col) == IF col = "sm" \/ col = "xs" THEN TrueV ELSE FalseV

(* One render pass over props p at breakpoint col with memo cells m: the   *)
(* tree returned and the memo cells left for the next pass.                *)
ListToolBar(p, col, m) ==
    LET multipleLine == IF p.multipleLine = Absent THEN FalseV ELSE p.multipleLine
        actions == IF p.actions = Absent THEN Array(<<>>, TRUE) ELSE p.actions
        settings == IF p.settings = Absent THEN Array(<<>>, TRUE) ELSE p.settings
        isMobile == isMobileOf(col)
        d1 == searchNodeDeps(p.search, p.onSearch, placeholder)
        searchNode == useMemo(m.searchNode, d1,
                              searchNodeFn(p.search, p.onSearch, placeholder))
        d2 == filtersNodeDeps(p.filter)
        filtersNode == useMemo(m.filtersNode, d2, filtersNodeFn(p.filter))
        d3 == hasTitleDeps(p.menu, p.title, p.subTitle, p.tooltip)
        hasTitle == useMemo(m.hasTitle, d3,
                            hasTitleFn(p.menu, p.title, p.subTitle, p.tooltip))
        d4 == actionDomDeps(actions)
        actionDom == useMemo(m.actionDom, d4, actionDomFn(actions))
        d5 == hasRightDeps(hasTitle, searchNode, multipleLine, filtersNode,
                           actionDom, settings)
        hasRight == useMemo(m.hasRight, d5,
                            hasRightFn(hasTitle, searchNode, multipleLine, filtersNode,
                                       actionDom, settings))
        d6 == hasLeftDeps(p.tooltip, p.title, p.subTitle, p.menu, hasTitle, searchNode)
        hasLeft == useMemo(m.hasLeft, d6,
                           hasLeftFn(p.tooltip, p.title, p.subTitle, p.menu,
                                     hasTitle, searchNode))
        d7 == leftTitleDomDeps(hasLeft, hasRight, p.menu, hasTitle, searchNode,
                               p.tooltip, p.title, p.subTitle)
        leftTitleDom == useMemo(m.leftTitleDom, d7,
                                leftTitleDomFn(hasLeft, hasRight, p.menu, hasTitle,
                                               searchNode, p.tooltip, p.title, p.subTitle))
        d8 == rightTitleDomDeps(hasRight, isMobile, hasTitle, searchNode, multipleLine,
                                filtersNode, actionDom, settings)
        rightTitleDom == useMemo(m.rightTitleDom, d8,
                                 rightTitleDomFn(hasRight, isMobile, hasTitle, searchNode,
                                                 multipleLine, filtersNode, actionDom,
                                                 settings))
        d9 == titleNodeDeps(hasRight, hasLeft, isMobile, leftTitleDom, rightTitleDom)
        titleNode == useMemo(m.titleNode, d9,
                             titleNodeFn(hasRight, hasLeft, isMobile, leftTitleDom,
                                         rightTitleDom))
    IN  [tree |-> El("wrapSSR", "", <<>>, <<>>,
                     <<El("div", "", <<>>, <<>>,
                          <<titleNode,
                            ListToolBarTabBar(p.tabs, multipleLine, filtersNode)>>)>>),
         memo |-> [searchNode |-> Cell(d1, searchNode),
                   filtersNode |-> Cell(d2, filtersNode),
                   hasTitle |-> Cell(d3, hasTitle),
                   actionDom |-> Cell(d4, actionDom),
                   hasRight |-> Cell(d5, hasRight),
                   hasLeft |-> Cell(d6, hasLeft),
                   leftTitleDom |-> Cell(d7, leftTitleDom),
                   rightTitleDom |-> Cell(d8, rightTitleDom),
                   titleNode |-> Cell(d9, titleNode)]]

(* Whether the pass that left next took a value from the memo cells m.     *)
Reused(m, next) ==
    \E h \in DOMAIN m : m[h].set /\ areHookInputsEqual(m[h].deps, next[h].deps)

(* --------------------------- the rendered tree ------------------------- *)
Kids(v) == IF v.t = "el" THEN v.slots \o v.children ELSE <<>>

RECURSIVE Descendants(_)
Descendants(v) ==
    {v} \cup UNION {Descendants(Kids(v)[i]) : i \in 1..Len(Kids(v))}

(* ------------------------------ the inputs ----------------------------- *)
Breakpoints == {"xs", "md"}
Queries == {"q1", "q2"}
SubmitEvent == [t |-> "event"]

(* The runs of at most n consecutive entries of pool.                      *)
Windows(pool, n) ==
    UNION {{SubSeq(pool, i, i + k - 1) : k \in 0..(IF n < Len(pool) - i + 1 THEN n
                                                    ELSE Len(pool) - i + 1)} :
           i \in 1..Len(pool)}
Prefixes(pool, n) == {SubSeq(pool, 1, k) : k \in 0..(IF n < Len(pool) THEN n ELSE Len(pool))}

SearchProps(cb) == [t |-> "searchProps", onSearch |-> cb]

Setting(icon, tooltip, onClick, key) ==
    [t |-> "setting", icon |-> icon, tooltip |-> tooltip, onClick |-> onClick, key |-> key]
SettingPool ==
    <<Setting(Element("icon"), Text("tip"), Fn("setting.onClick"), Str("k")),
      Setting(Absent, Text("tip"), Fn("setting.onClick"), Str("k")),
      Element("setting"),
      Absent,
      Setting(Element("icon"), Absent, Absent, Absent)>>

(* Every shape of one settings entry.                                      *)
SettingEntries ==
    {Element("setting"), Absent} \cup
    {Setting(icon, tooltip, onClick, key) :
        icon \in {Absent, Element("icon")}, tooltip \in {Absent, Text("tip")},
        onClick \in {Absent, Fn("setting.onClick")}, key \in {Absent, Str("k")}}

ActionPool == <<Element("action"), Text("rawAction")>>

TabItem(key) == [key |-> key, tab |-> Text("tab")]
TabPool == <<TabItem(Str("a")), TabItem(Absent)>>
Tabs(items) ==
    [t |-> "tabs", activeKey |-> Absent, onChange |-> Fn("tabs.onChange"),
     items |-> Array(items, FALSE)]

Fields ==
    {"title", "subTitle", "tooltip", "search", "onSearch", "multipleLine", "filter",
     "actions", "settings", "tabs", "menu"}

(* Every value a prop takes in the first pass.                             *)
Domain(f) ==
    CASE f = "title" -> {Absent, Element("title")}
      [] f = "subTitle" -> {Absent, Text("subTitle")}
      [] f = "tooltip" -> {Absent, Text("tooltip")}
      [] f = "search" ->
            {Absent, TrueV, Element("search"), SearchProps(Fn("search.onSearch"))}
      [] f = "onSearch" -> {Absent, Fn("onSearch")}
      [] f = "multipleLine" -> {Absent, TrueV}
      [] f = "filter" -> {Absent, Element("filter")}
      [] f = "actions" ->
            {Absent} \cup {Array(s, FALSE) : s \in Windows(ActionPool, MaxActions)}
      [] f = "settings" ->
            {Absent} \cup {Array(s, FALSE) : s \in Windows(SettingPool, MaxSettings)}
      [] f = "tabs" -> {Absent} \cup {Tabs(s) : s \in Prefixes(TabPool, MaxTabs)}
      [] f = "menu" -> {Absent, [t |-> "menu", id |-> "menu"]}

(* The values a prop changes to in a later pass.                           *)
PassDomain(f) ==
    CASE f = "search" -> {Absent, SearchProps(Fn("search.onSearch"))}
      [] f = "actions" ->
            {Absent} \cup {Array(s, FALSE) : s \in Prefixes(ActionPool, MaxActions)}
      [] f = "settings" ->
            {Absent} \cup
            {Array(s, FALSE) : s \in Windows(SubSeq(SettingPool, 1, 2), MaxSettings)}
      [] f = "tabs" -> {Absent, Tabs(SubSeq(TabPool, 1, 1))}
      [] OTHER -> Domain(f)

Props(title, subTitle, tooltip, search, onSearch, multipleLine, filter, actions, settings, tabs, menu) ==
    [title |-> title, subTitle |-> subTitle, tooltip |-> tooltip, search |-> search,
     onSearch |-> onSearch, multipleLine |-> multipleLine, filter |-> filter,
     actions |-> actions, settings |-> settings, tabs |-> tabs, menu |-> menu]

NoProps ==
    Props(Absent, Absent, Absent, Absent, Absent, Absent, Absent, Absent, Absent,
          Absent, Absent)

(* ------------------------------ the steps ------------------------------ *)
Commit(p, col) ==
    \E pass \in {ListToolBar(p, col, memo)} :
        /\ props' = p
        /\ colSize' = col
        /\ memo' = pass.memo
        /\ out' = pass.tree
        /\ event' = [kind |-> "render", reused |-> Reused(memo, pass.memo)]
        /\ calls' = <<>>

(* The first pass, over the props the component is created with.           *)
Mount ==
    /\ out = Absent
    /\ Commit(props, colSize)

(* The parent renders the component again with one prop changed.           *)
Render ==
    /\ out # Absent
    /\ \E f \in Fields : \E v \in PassDomain(f) \ {props[f]} :
            Commit([props EXCEPT ![f] = v], colSize)

(* The parent renders the component again with the same props.             *)
Rerender ==
    /\ out # Absent
    /\ Commit(props, colSize)

(* The breakpoint changes and the component renders again.                 *)
Resize ==
    /\ out # Absent
    /\ \E col \in Breakpoints \ {colSize} : Commit(props, col)

(* The submit handler calling the options' callback first.                *)
onSearchHandlerOwnFirst(h, restParams) ==
    (IF h.search.t = "searchProps" /\ Truthy(h.search.onSearch)
     THEN <<[fn |-> h.search.onSearch, args |-> restParams]>>
     ELSE <<>>)
    \o (IF Truthy(h.top) THEN <<[fn |-> h.top, args |-> <<restParams[1]>>]>> ELSE <<>>)

onSearchHandler(h, restParams) ==
    (IF Truthy(h.top) THEN <<[fn |-> h.top, args |-> <<restParams[1]>>]>> ELSE <<>>)
    \o (IF h.search.t = "searchProps" /\ Truthy(h.search.onSearch)
        THEN <<[fn |-> h.search.onSearch, args |-> restParams]>>
        ELSE <<>>)

(* The user submits a query in the rendered search box.                    *)
SubmitSearch ==
    \E box \in Descendants(out) : \E q \in Queries :
        /\ box.t = "el" /\ box.cls = "-search"
        /\ LET node == box.children[1]
           IN  /\ event' = [kind |-> "search", q |-> q, node |-> node]
               /\ calls' = IF node.t = "el" /\ node.type = "Input.Search"
                           THEN onSearchHandler(node.attrs.onSearch, <<Str(q), SubmitEvent>>)
                           ELSE <<>>
        /\ UNCHANGED <<props, colSize, memo, out>>

onClickHandler(h) ==
    IF Truthy(h.onClick) THEN <<[fn |-> h.onClick, args |-> <<h.key>>]>> ELSE <<>>

(* The user clicks what one settings slot shows.                           *)
ClickSetting ==
    \E slot \in Descendants(out) :
        /\ slot.t = "el" /\ slot.cls = "-setting-item"
        /\ LET item == slot.children[1]
           IN  /\ event' = [kind |-> "click", slot |-> slot]
               /\ calls' = IF item.t = "el" /\ item.type = "Tooltip"
                           THEN onClickHandler(item.children[1].attrs.onClick)
                           ELSE <<>>
        /\ UNCHANGED <<props, colSize, memo, out>>

Start(p) ==
    /\ props = p
    /\ colSize \in Breakpoints
    /\ memo = Unmounted
    /\ out = Absent
    /\ event = [kind |-> "none"]
    /\ calls = <<>>

(* Render passes one after the other, the memo cells carried along.        *)
Init == Start(NoProps)
Next == Mount \/ Render \/ Rerender \/ Resize
Spec == Init /\ [][Next]_vars

(* One pass over any props that decide the layout (onSearch, which the     *)
(* layout never reads, comes with the events below).                       *)
InitOnce ==
    \E title \in Domain("title"), subTitle \in Domain("subTitle"),
       tooltip \in Domain("tooltip"), search \in Domain("search"),
       onSearch \in {Absent}, multipleLine \in Domain("multipleLine"),
       filter \in Domain("filter"), actions \in Domain("actions"),
       settings \in Domain("settings"), tabs \in Domain("tabs"),
       menu \in Domain("menu") :
        Start(Props(title, subTitle, tooltip, search, onSearch, multipleLine, filter,
                    actions, settings, tabs, menu))
NextOnce == Mount
SpecOnce == InitOnce /\ [][NextOnce]_vars

(* One pass over the props that carry callbacks, and the user's events on  *)
(* what it returned.                                                       *)
InitEvents ==
    \E title \in Domain("title"), search \in Domain("search"),
       onSearch \in Domain("onSearch"),
       settings \in {Absent} \cup
                    {Array(s, FALSE) :
                        s \in UNION {[1..k -> SettingEntries] : k \in 0..MaxSettings}} :
        Start(Props(title, Absent, Absent, search, onSearch, Absent, Absent, Absent,
                    settings, Absent, Absent))
NextEvents == Mount \/ SubmitSearch \/ ClickSetting
SpecEvents == InitEvents /\ [][NextEvents]_vars

(* ------------------------- reading the output -------------------------- *)
Rendered == out # Absent
Root == out.children[1]
TitleContainer == Root.children[1]
SecondaryLine == Root.children[2]
LeftRegion == IF TitleContainer = Absent THEN Absent ELSE TitleContainer.children[1]
RightRegion == IF TitleContainer = Absent THEN Absent ELSE TitleContainer.children[2]
SettingItems == IF RightRegion = Absent THEN Absent ELSE RightRegion.children[4]
SettingSlot(i) == IF SettingItems = Absent THEN Absent ELSE SettingItems.children[i]

IsContent(v) == v.t \in {"element", "text", "menu"} \/ (v.t = "el" /\ v.type = "Input.Search")
HasContent(v) == \E d \in Descendants(v) : IsContent(d)

RECURSIVE CountCls(_, _), CountClsIn(_, _, _)
CountClsIn(s, cls, n) ==
    IF n = 0 THEN 0 ELSE CountCls(s[n], cls) + CountClsIn(s, cls, n - 1)
CountCls(v, cls) ==
    (IF v.t = "el" /\ v.cls = cls THEN 1 ELSE 0) + CountClsIn(Kids(v), cls, Len(Kids(v)))

RECURSIVE CountId(_, _), CountIdIn(_, _, _)
CountIdIn(s, id, n) ==
    IF n = 0 THEN 0 ELSE CountId(s[n], id) + CountIdIn(s, id, n - 1)
CountId(v, id) ==
    (IF v.t \in {"element", "text", "menu"} /\ v.id = id THEN 1 ELSE 0)
    + CountIdIn(Kids(v), id, Len(Kids(v)))

Shows(id) == CountId(out, id) >= 1
SearchShown ==
    \E box \in Descendants(out) :
        box.t = "el" /\ box.cls = "-search" /\ IsContent(box.children[1])

Renders(v) == v.t \notin {"absent", "bool"}
RenderedChildren(v) == SelectSeq(v.children, Renders)

(* The derived presence, from the props alone.                             *)
HasTitleP ==
    Truthy(props.menu) \/ Truthy(props.title) \/ Truthy(props.subTitle)
        \/ Truthy(props.tooltip)
MultiLineP == Truthy(props.multipleLine)
ItemsOf(v) == IF v = Absent THEN <<>> ELSE v.items
TabItemsP == IF props.tabs = Absent THEN <<>> ELSE props.tabs.items.items
HasLeftP == HasTitleP \/ Truthy(props.search)
HasRightP ==
    \/ HasTitleP /\ Truthy(props.search)
    \/ ~MultiLineP /\ Truthy(props.filter)
    \/ Len(ItemsOf(props.actions)) > 0
    \/ Len(ItemsOf(props.settings)) > 0

(* ------------------------------ the claims ----------------------------- *)

(* C1: when search is truthy the search box is rendered exactly once, in   *)
(* the right region if any of menu, title, subTitle, tooltip is truthy and *)
(* in the left region otherwise; when search is falsy it is not rendered.  *)
SearchExactlyOnce ==
    Rendered =>
        IF Truthy(props.search)
        THEN /\ CountCls(out, "-search") = 1
             /\ SearchShown
             /\ IF HasTitleP
                THEN CountCls(RightRegion, "-search") = 1 /\ CountCls(LeftRegion, "-search") = 0
                ELSE CountCls(LeftRegion, "-search") = 1 /\ CountCls(RightRegion, "-search") = 0
        ELSE CountCls(out, "-search") = 0

SearchRightWitness ==
    /\ Rendered /\ Truthy(props.search) /\ Truthy(props.tooltip) /\ ~Truthy(props.title)
    /\ CountCls(RightRegion, "-search") = 1

(* C2: a non-empty filter is rendered in exactly one place: in the right   *)
(* region with no secondary line when multipleLine is false; otherwise in  *)
(* the secondary line, as the tab strip's trailing content when tabs.items *)
(* is non-empty and alone when it is empty or absent.                      *)
FilterOnePlace ==
    Rendered /\ Truthy(props.filter) =>
        /\ CountId(out, "filter") = 1
        /\ IF ~MultiLineP
           THEN CountId(RightRegion, "filter") = 1 /\ SecondaryLine = Absent
           ELSE /\ CountId(RightRegion, "filter") = 0
                /\ SecondaryLine # Absent
                /\ IF Len(TabItemsP) > 0
                   THEN /\ Len(SecondaryLine.children) = 1
                        /\ SecondaryLine.children[1].type = "Tabs"
                        /\ Len(SecondaryLine.children[1].slots) = 1
                        /\ CountId(SecondaryLine.children[1].slots[1], "filter") = 1
                   ELSE /\ Len(SecondaryLine.children) = 1
                        /\ SecondaryLine.children[1].cls = "-filter"
                        /\ SecondaryLine.children[1].children = <<props.filter>>

FilterWithTabsWitness ==
    /\ Rendered /\ Truthy(props.filter) /\ MultiLineP /\ Len(TabItemsP) > 0
    /\ RightRegion # Absent
    /\ CountId(SecondaryLine, "filter") = 1

(* C3: the title container exists iff hasLeft or hasRight, the secondary   *)
(* line exists iff multipleLine, and with every prop absent neither does.  *)
ContainersMaterialize ==
    Rendered =>
        /\ (TitleContainer # Absent) <=> (HasLeftP \/ HasRightP)
        /\ (SecondaryLine # Absent) <=> MultiLineP
        /\ props = NoProps => TitleContainer = Absent /\ SecondaryLine = Absent

SecondaryLineAloneWitness ==
    Rendered /\ TitleContainer = Absent /\ SecondaryLine # Absent /\ Len(TabItemsP) > 0

(* C4 as stated: with title and menu absent and search set the search box  *)
(* is in the left region, whatever subTitle and tooltip are.               *)
SearchLeftWithoutTitleAndMenu ==
    Rendered /\ ~Truthy(props.title) /\ ~Truthy(props.menu) /\ Truthy(props.search) =>
        CountCls(LeftRegion, "-search") = 1

(* C4 amended: with title, subTitle, tooltip and menu all absent and       *)
(* search set the search box is in the left region, whatever the other     *)
(* props are.                                                              *)
SearchLeftWithoutAnyTitle ==
    Rendered /\ ~HasTitleP /\ Truthy(props.search) =>
        /\ CountCls(LeftRegion, "-search") = 1
        /\ IsContent(LeftRegion.children[3].children[1])

SearchLeftWitness ==
    /\ Rendered /\ ~HasTitleP /\ Truthy(props.search) /\ RightRegion # Absent
    /\ CountCls(LeftRegion, "-search") = 1

(* C5 as stated: every supplied title, subTitle, tooltip, menu, search,    *)
(* filter, action, setting and tab item appears in the output.             *)
SettingShown(i) ==
    LET e == props.settings.items[i]
    IN  CASE e.t = "element" -> CountId(SettingSlot(i), e.id) >= 1
          [] e.t = "setting" ->
                /\ Truthy(e.icon) => CountId(SettingSlot(i), e.icon.id) >= 1
                /\ Truthy(e.tooltip) => CountId(SettingSlot(i), e.tooltip.id) >= 1
          [] OTHER -> TRUE

NothingDropped ==
    Rendered =>
        /\ \A f \in {"title", "subTitle", "tooltip", "menu", "filter"} :
                Truthy(props[f]) => Shows(f)
        /\ Truthy(props.search) => SearchShown
        /\ \A i \in 1..Len(ItemsOf(props.actions)) : Shows(props.actions.items[i].id)
        /\ \A i \in 1..Len(ItemsOf(props.settings)) : SettingShown(i)
        /\ Len(TabItemsP) > 0 => Shows("tab")

(* C5 amended: every supplied menu, search, filter and action appears, and *)
(* so does every settings entry that is an element or has an icon; title,  *)
(* subTitle and tooltip appear exactly when no menu is supplied; the tab   *)
(* items appear exactly when multipleLine is true; a settings descriptor   *)
(* without an icon shows nothing.                                          *)
DroppedOnlyByDesign ==
    Rendered =>
        /\ \A f \in {"title", "subTitle", "tooltip"} :
                Truthy(props[f]) => (Shows(f) <=> ~Truthy(props.menu))
        /\ \A f \in {"menu", "filter"} : Truthy(props[f]) => Shows(f)
        /\ Truthy(props.search) => SearchShown
        /\ \A i \in 1..Len(ItemsOf(props.actions)) : Shows(props.actions.items[i].id)
        /\ \A i \in 1..Len(ItemsOf(props.settings)) :
                LET e == props.settings.items[i]
                IN  IF e.t = "setting" /\ ~Truthy(e.icon)
                    THEN ~HasContent(SettingSlot(i))
                    ELSE SettingShown(i)
        /\ Len(TabItemsP) > 0 => (Shows("tab") <=> MultiLineP)

TitleDroppedByMenuWitness ==
    /\ Rendered /\ Truthy(props.menu) /\ Truthy(props.title) /\ ~Shows("title")
    /\ Len(ItemsOf(props.actions)) > 0 /\ Shows(props.actions.items[1].id)

(* C6 as stated: apart from the empty left placeholder, every wrapper that *)
(* materializes (title container, right region, each settings slot,        *)
(* secondary line) holds some rendered content.                            *)
NoEmptyWrapper ==
    Rendered =>
        /\ TitleContainer # Absent => HasContent(TitleContainer)
        /\ RightRegion # Absent => HasContent(RightRegion)
        /\ \A slot \in Descendants(out) :
                slot.t = "el" /\ slot.cls = "-setting-item" => HasContent(slot)
        /\ SecondaryLine # Absent => HasContent(SecondaryLine)

(* C7: submitting a query in the search box the component built invokes    *)
(* the top-level onSearch and then the options' own onSearch, each once    *)
(* and with the query, skipping the ones not supplied; on a ready-made     *)
(* search element the component invokes nothing.                           *)
ExpectedSearchCalls ==
    (IF Truthy(props.onSearch) THEN <<props.onSearch>> ELSE <<>>)
    \o (IF props.search.t = "searchProps" /\ Truthy(props.search.onSearch)
        THEN <<props.search.onSearch>> ELSE <<>>)

SearchCallbacksInOrder ==
    event.kind = "search" =>
        IF isValidElement(props.search)
        THEN calls = <<>>
        ELSE /\ Len(calls) = Len(ExpectedSearchCalls)
             /\ \A i \in 1..Len(calls) :
                    /\ calls[i].fn = ExpectedSearchCalls[i]
                    /\ calls[i].args[1] = Str(event.q)

BothCallbacksWitness ==
    event.kind = "search" /\ Len(calls) = 2 /\ calls[1].fn = Fn("onSearch")

(* C8: a settings entry that is an element is shown unchanged; a falsy one *)
(* shows nothing; a descriptor with icon and tooltip shows the icon inside *)
(* a tooltip and a click calls its onClick once with its key (nothing if   *)
(* onClick is absent); a descriptor with an icon and no tooltip shows the  *)
(* bare icon and a click calls nothing.                                    *)
SettingItemResolved ==
    Rendered =>
        \A i \in 1..Len(ItemsOf(props.settings)) :
            LET e == props.settings.items[i]
                item == SettingSlot(i).children[1]
                clicked == event.kind = "click" /\ event.slot = SettingSlot(i)
            IN  /\ e.t = "element" => item = e
                /\ ~Truthy(e) => item = Absent
                /\ e.t = "setting" /\ Truthy(e.icon) /\ Truthy(e.tooltip) =>
                        /\ item.t = "el" /\ item.type = "Tooltip"
                        /\ item.slots = <<e.tooltip>>
                        /\ Len(item.children) = 1
                        /\ item.children[1].children = <<e.icon>>
                        /\ clicked =>
                                calls = IF Truthy(e.onClick)
                                        THEN <<[fn |-> e.onClick, args |-> <<e.key>>]>>
                                        ELSE <<>>
                /\ e.t = "setting" /\ Truthy(e.icon) /\ ~Truthy(e.tooltip) =>
                        /\ item = e.icon
                        /\ clicked => calls = <<>>

SettingClickedWitness ==
    /\ event.kind = "click" /\ Len(calls) = 1
    /\ calls[1].args = <<Str("k")>>

(* C9: the tree a pass returns with the memo cells of the pass before is   *)
(* the tree the pass returns with no memo cells at all.                    *)
MemoizationTransparent ==
    Rendered => out = ListToolBar(props, colSize, Unmounted).tree

MemoReusedWitness ==
    /\ event.kind = "render" /\ event.reused
    /\ Len(ItemsOf(props.settings)) > 0 /\ Len(ItemsOf(props.actions)) > 0
    /\ Truthy(props.search)

(* C10: the left region is the empty placeholder (hasLeft falsy, hasRight  *)
(* truthy), or a stack holding only the menu (menu present), or a stack    *)
(* holding only the search box (hasTitle falsy, search resolved), or a     *)
(* single wrapper holding only the title block (otherwise); a stack never  *)
(* holds the title block nor more than one child.                          *)
LeftTitleDomValue == memo.leftTitleDom.val

LeftRegionShape ==
    Rendered =>
        LET kids == RenderedChildren(LeftTitleDomValue)
        IN  /\ LeftTitleDomValue.cls = "-left"
            /\ IF ~HasLeftP /\ HasRightP
               THEN LeftTitleDomValue.type = "div" /\ LeftTitleDomValue.children = <<>>
               ELSE IF Truthy(props.menu)
               THEN /\ LeftTitleDomValue.type = "Space"
                    /\ Len(kids) = 1 /\ kids[1].type = "HeaderMenu"
               ELSE IF ~HasTitleP /\ Truthy(props.search)
               THEN /\ LeftTitleDomValue.type = "Space"
                    /\ Len(kids) = 1 /\ kids[1].cls = "-search"
               ELSE /\ LeftTitleDomValue.type = "div"
                    /\ Len(kids) = 1 /\ kids[1].cls = "-title"
            /\ LeftTitleDomValue.type = "Space" =>
                    Len(kids) = 1 /\ CountCls(LeftTitleDomValue, "-title") = 0

MenuStackWitness ==
    /\ Rendered /\ Truthy(props.menu) /\ Truthy(props.title) /\ Truthy(props.search)
    /\ LeftTitleDomValue.type = "Space"

====
